---------------------------- MODULE Spec2Model ----------------------------
(***************************************************************************)
(* Model of src/main.py: the /search endpoint (search_products) and the    *)
(* scraper behind it (parse_yandex_market).  One query is one run: a       *)
(* single HTTP request, then a loop over the first `limit` item cards of   *)
(* the returned document, each card parsed under its own try/except.       *)
(*                                                                         *)
(* A document is abstracted to what the code reads of it: the sequence of  *)
(* <article data-auto="searchOrganic"> cards, and in each card the JSON    *)
(* blocks (<noframes data-apiary="patch">, else <script                    *)
(* type="application/json">), the <span itemprop="name"> tag, the text     *)
(* node matching \d+\s*RUB-glyph, and the "ds-text" spans.  Texts the code *)
(* edits character by character (the spans) are sequences of one-character *)
(* strings; other texts are strings.                                       *)
(***************************************************************************)
EXTENDS Integers, Sequences, FiniteSets, TLC

VARIABLES
    pc,        \* position of the query: FETCHING, EXTRACTING, DONE, ABORTED
    limit,     \* the `limit` argument of search_products / parse_yandex_market
    page,      \* the cards of the document the site would serve (input)
    fetches,   \* number of requests.get calls issued so far
    cards,     \* soup.find_all('article', ...) (main.py:55)
    idx,       \* number of iterations of `for card in cards[:limit]` done
    products,  \* the list `products` (main.py:52)
    title,     \* local `title` as left by the latest loop iteration
    price,     \* local `price` as left by the latest loop iteration
    specs,     \* local `specs` as left by the latest loop iteration
    response   \* what search_products handed back to the caller

vars == <<pc, limit, page, fetches, cards, idx, products, title, price, specs, response>>

-----------------------------------------------------------------------------
(* Bounds of the model *)

MaxCards == 3
MaxLimit == 3
MaxNegLimit == 1
MaxEntries == 2
MaxSpans == 3

(* Program constant: `len(txt) < 50` *)
LabelLenLimit == 50

-----------------------------------------------------------------------------
(* Python values *)

\* Python's None where a string is expected
None == "<None>"

\* Truthiness of an Optional[str]: `if title`, `if not price`
Truthy(s) == s # None /\ s # ""

Min(a, b) == IF a < b THEN a ELSE b
Max(a, b) == IF a > b THEN a ELSE b

\* seq[:k] of Python: the first k elements for k >= 0, all but the last -k for k < 0
SliceTo(s, k) ==
    IF k >= 0 THEN SubSeq(s, 1, Min(k, Len(s)))
    ELSE SubSeq(s, 1, Max(Len(s) + k, 0))

\* s with its i-th element taken out
RemoveAt(s, i) == SubSeq(s, 1, i - 1) \o SubSeq(s, i + 1, Len(s))

RECURSIVE Flatten(_)
Flatten(ss) == IF ss = <<>> THEN <<>> ELSE Head(ss) \o Flatten(Tail(ss))

-----------------------------------------------------------------------------
(* Texts as character sequences: str.strip, str.replace(':', ''), ':' in s *)

IsSpace(c) == c = " "

RECURSIVE LStrip(_)
LStrip(s) == IF s # <<>> /\ IsSpace(Head(s)) THEN LStrip(Tail(s)) ELSE s

RECURSIVE RStrip(_)
RStrip(s) ==
    IF s # <<>> /\ IsSpace(s[Len(s)]) THEN RStrip(SubSeq(s, 1, Len(s) - 1)) ELSE s

Strip(s) == RStrip(LStrip(s))

IsColon(c) == c = ":"
NotColon(c) == ~IsColon(c)

HasColon(s) == \E i \in 1..Len(s) : IsColon(s[i])

RemoveColons(s) == SelectSeq(s, NotColon)

\* the characters of s as one string
RECURSIVE JoinChars(_)
JoinChars(s) == IF s = <<>> THEN "" ELSE Head(s) \o JoinChars(Tail(s))

\* tag.get_text(strip=True) of a span holding one text node
GetText(raw) == Strip(raw)

-----------------------------------------------------------------------------
(* Structured payload of a card (main.py:66-110).                          *)
(*   block  : [kind, widgetsKind, widgets]                                 *)
(*            kind "empty"   - block.string is empty: skipped              *)
(*                 "invalid" - json.loads raises JSONDecodeError: skipped  *)
(*                 "other"   - JSON that is no object: data.get raises     *)
(*                 "dict"    - a JSON object                               *)
(*            widgetsKind "absent" | "other" (no mapping: .items raises)   *)
(*                        | "dict"                                         *)
(*   widget : [kind, values]   kind "other" (no mapping: .items raises)    *)
(*   value  : [kind, title, price, specs]  kind "other": not a dict        *)
(***************************************************************************)

\* f"{p_val} {p_curr}"
FormatPrice(p_val, p_curr) == ToString(p_val) \o " " \o p_curr

\* value['price'].get('currency', 'RUR')
Currency(p) == IF p.hasCurrency THEN p.currency ELSE "RUR"

\* str(spec.get('value', ''))
SpecValue(v) ==
    CASE v.kind = "absent" -> ""
      [] v.kind = "int" -> ToString(v.n)
      [] OTHER -> v.s

\* isinstance(spec, dict) and 'name' in spec
IsNamedSpec(spec) == spec.kind = "dict" /\ spec.hasName

Characteristic(spec) == [name |-> spec.name, value |-> SpecValue(spec.value)]

\* the Characteristics appended for one 'specs' list (main.py:102-105)
RECURSIVE SpecsOf(_)
SpecsOf(items) ==
    IF items = <<>> THEN <<>>
    ELSE (IF IsNamedSpec(Head(items)) THEN <<Characteristic(Head(items))>> ELSE <<>>)
         \o SpecsOf(Tail(items))

\* `if 'price' in value:` ... `if p_val: price = ...` (main.py:92-96);
\* a 'price' that is no mapping has no .get: AttributeError
PriceStep(acc, p) ==
    CASE p.kind = "absent" -> acc
      [] p.kind = "other" -> [acc EXCEPT !.raised = TRUE]
      [] OTHER ->
           IF p.hasValue /\ p.value # 0
           THEN [acc EXCEPT !.price = FormatPrice(p.value, Currency(p))]
           ELSE acc

\* a Characteristic list with the names already in `have` left out
RECURSIVE WithoutNames(_, _)
WithoutNames(cs, have) ==
    IF cs = <<>> THEN <<>>
    ELSE IF Head(cs).name \in have THEN WithoutNames(Tail(cs), have)
         ELSE <<Head(cs)>> \o WithoutNames(Tail(cs), have \cup {Head(cs).name})

\* mutant: a spec whose name was already collected is dropped
SpecsStepDedup(acc, sp) ==
    CASE sp.kind = "absent" -> acc
      [] sp.kind = "other" -> [acc EXCEPT !.raised = TRUE]
      [] OTHER ->
           [acc EXCEPT !.specs =
               @ \o WithoutNames(SpecsOf(sp.items), {@[i].name : i \in 1..Len(@)})]

\* `if 'specs' in value: for spec in value['specs']: ... specs.append(...)`
\* (main.py:101-105); a 'specs' that cannot be iterated: TypeError
SpecsStep(acc, sp) ==
    CASE sp.kind = "absent" -> acc
      [] sp.kind = "other" -> [acc EXCEPT !.raised = TRUE]
      [] OTHER -> [acc EXCEPT !.specs = @ \o SpecsOf(sp.items)]

\* `if 'title' in value and not title: title = value['title']` (main.py:90-91)
TitleStep(acc, t) ==
    IF t.has /\ ~Truthy(acc.title) THEN [acc EXCEPT !.title = t.text] ELSE acc

\* one iteration of `for key, value in widget_data.items()` (main.py:87-105);
\* once an exception is in flight the locals stay as they are
ValueStep(acc, value) ==
    IF acc.raised \/ value.kind # "dict" THEN acc
    ELSE LET a1 == TitleStep(acc, value.title)
             a2 == PriceStep(a1, value.price)
         IN  IF a2.raised THEN a2 ELSE SpecsStep(a2, value.specs)

RECURSIVE ValuesLoop(_, _)
ValuesLoop(acc, values) ==
    IF values = <<>> THEN acc
    ELSE ValuesLoop(ValueStep(acc, Head(values)), Tail(values))

\* one iteration of `for widget_name, widget_data in widgets.items()` (main.py:85-87)
WidgetStep(acc, widget) ==
    IF acc.raised THEN acc
    ELSE IF widget.kind # "dict" THEN [acc EXCEPT !.raised = TRUE]
    ELSE ValuesLoop(acc, widget.values)

RECURSIVE WidgetsLoop(_, _)
WidgetsLoop(acc, widgets) ==
    IF widgets = <<>> THEN acc
    ELSE WidgetsLoop(WidgetStep(acc, Head(widgets)), Tail(widgets))

\* one iteration of `for block in json_blocks` (main.py:73-110)
BlockStep(acc, block) ==
    IF acc.raised THEN acc
    ELSE CASE block.kind \in {"empty", "invalid"} -> acc
           [] block.kind = "other" -> [acc EXCEPT !.raised = TRUE]
           [] OTHER ->
                CASE block.widgetsKind = "absent" -> acc
                  [] block.widgetsKind = "other" -> [acc EXCEPT !.raised = TRUE]
                  [] OTHER -> WidgetsLoop(acc, block.widgets)

RECURSIVE BlocksLoop(_, _)
BlocksLoop(acc, blocks) ==
    IF blocks = <<>> THEN acc
    ELSE BlocksLoop(BlockStep(acc, Head(blocks)), Tail(blocks))

\* the <noframes> blocks, else the <script> blocks (main.py:66-69)
JsonBlocks(card) == IF card.noframes # <<>> THEN card.noframes ELSE card.scripts

\* title = None; price = None; specs = [] (main.py:59-61)
FreshLocals == [raised |-> FALSE, title |-> None, price |-> None, specs |-> <<>>]

\* the locals after the JSON pass
Structured(card) == BlocksLoop(FreshLocals, JsonBlocks(card))

-----------------------------------------------------------------------------
(* Markup fallbacks of a card (main.py:112-137).                           *)
(*   card : [noframes, scripts, nameTag, priceTag, spans]                  *)
(*     nameTag  - card.find('span', {'itemprop': 'name'}): [has, text]     *)
(*     priceTag - the first text node matching \d+\s*<rouble sign>:        *)
(*                [has, text]                                              *)
(*     spans    - the texts of the spans whose class contains 'ds-text',   *)
(*                in document order                                        *)
(***************************************************************************)

\* `if not title:` ... title_tag.get_text(strip=True) (main.py:113-116)
TitleFallback(acc, card) ==
    IF ~Truthy(acc.title) /\ card.nameTag.has
    THEN [acc EXCEPT !.title = JoinChars(GetText(card.nameTag.text))]
    ELSE acc

\* `if not price:` ... price_tag.strip() (main.py:119-122)
PriceFallback(acc, card) ==
    IF ~Truthy(acc.price) /\ card.priceTag.has
    THEN [acc EXCEPT !.price = JoinChars(Strip(card.priceTag.text))]
    ELSE acc

\* `':' in txt and len(txt) < 50` (main.py:132)
IsLabel(txt) == HasColon(txt) /\ Len(txt) < LabelLenLimit

\* txt.replace(':', '').strip() (main.py:135)
LabelName(txt) == JoinChars(Strip(RemoveColons(txt)))

\* the pairs collected by `for i in range(len(all_spans) - 1)` from index i on
\* (main.py:130-135); i counts from 1 here
RECURSIVE TempSpecs(_, _)
TempSpecs(all_spans, i) ==
    IF i > Len(all_spans) - 1 THEN <<>>
    ELSE LET txt == GetText(all_spans[i])
             val == GetText(all_spans[i + 1])
         IN  (IF IsLabel(txt) /\ val # <<>>
              THEN <<[name |-> LabelName(txt), value |-> JoinChars(val)]>>
              ELSE <<>>)
             \o TempSpecs(all_spans, i + 1)

\* mutant: a known key keeps its first value
DictPutFirst(d, s) ==
    IF \E k \in 1..Len(d) : d[k].name = s.name THEN d ELSE Append(d, s)

\* d[s.name] = s on a dict kept as a list in insertion order: a known key keeps
\* its place and takes the new value
DictPut(d, s) ==
    IF \E k \in 1..Len(d) : d[k].name = s.name
    THEN [k \in 1..Len(d) |-> IF d[k].name = s.name THEN s ELSE d[k]]
    ELSE Append(d, s)

RECURSIVE DictOf(_, _)
DictOf(d, temp_specs) ==
    IF temp_specs = <<>> THEN d
    ELSE DictOf(DictPut(d, Head(temp_specs)), Tail(temp_specs))

\* list({s.name: s for s in temp_specs}.values()) (main.py:137)
DedupByName(temp_specs) == DictOf(<<>>, temp_specs)

\* `if not specs:` ... (main.py:125-137)
SpecsFallback(acc, card) ==
    IF acc.specs = <<>>
    THEN [acc EXCEPT !.specs = DedupByName(TempSpecs(card.spans, 1))]
    ELSE acc

\* the locals at the end of the try body, or where the exception left them
\* (main.py:59-137)
ParseCard(card) ==
    LET a == Structured(card)
    IN  IF a.raised THEN a
        ELSE SpecsFallback(PriceFallback(TitleFallback(a, card), card), card)

\* Product(title=title, price=price, characteristics=specs) (main.py:140-144)
Product(acc) == [title |-> acc.title, price |-> acc.price, characteristics |-> acc.specs]

\* what one card adds to `products`: nothing when the body raised or the
\* title is empty (main.py:139-148)
CardProducts(card) ==
    LET acc == ParseCard(card)
    IN  IF ~acc.raised /\ Truthy(acc.title) THEN <<Product(acc)>> ELSE <<>>

-----------------------------------------------------------------------------
(* Inputs: the documents the site may serve *)

NoTag == [has |-> FALSE, text |-> <<>>]
Tag(text) == [has |-> TRUE, text |-> text]

AbsentTitle == [has |-> FALSE, text |-> None]
HasTitle(t) == [has |-> TRUE, text |-> t]

AbsentPrice ==
    [kind |-> "absent", hasValue |-> FALSE, value |-> 0, hasCurrency |-> FALSE, currency |-> ""]
OtherPrice ==
    [kind |-> "other", hasValue |-> FALSE, value |-> 0, hasCurrency |-> FALSE, currency |-> ""]
PriceOf(v) ==
    [kind |-> "dict", hasValue |-> TRUE, value |-> v, hasCurrency |-> FALSE, currency |-> ""]
PriceIn(v, c) ==
    [kind |-> "dict", hasValue |-> TRUE, value |-> v, hasCurrency |-> TRUE, currency |-> c]
PriceNoValue ==
    [kind |-> "dict", hasValue |-> FALSE, value |-> 0, hasCurrency |-> FALSE, currency |-> ""]
PriceNoValueIn(c) ==
    [kind |-> "dict", hasValue |-> FALSE, value |-> 0, hasCurrency |-> TRUE, currency |-> c]

AbsentSpecs == [kind |-> "absent", items |-> <<>>]
OtherSpecs == [kind |-> "other", items |-> <<>>]
SpecList(items) == [kind |-> "list", items |-> items]

NoValue == [kind |-> "absent", s |-> "", n |-> 0]
StrValue(s) == [kind |-> "str", s |-> s, n |-> 0]
IntValue(n) == [kind |-> "int", s |-> "", n |-> n]

NamedSpec(name, value) == [kind |-> "dict", hasName |-> TRUE, name |-> name, value |-> value]
UnnamedSpec == [kind |-> "dict", hasName |-> FALSE, name |-> "", value |-> StrValue("x")]
OtherSpec == [kind |-> "other", hasName |-> FALSE, name |-> "", value |-> NoValue]

Entry(t, p, sp) == [kind |-> "dict", title |-> t, price |-> p, specs |-> sp]
OtherValue == [kind |-> "other", title |-> AbsentTitle, price |-> AbsentPrice, specs |-> AbsentSpecs]

Widget(values) == [kind |-> "dict", values |-> values]
OtherWidget == [kind |-> "other", values |-> <<>>]

Doc(widgets) == [kind |-> "dict", widgetsKind |-> "dict", widgets |-> widgets]
DocNoWidgets == [kind |-> "dict", widgetsKind |-> "absent", widgets |-> <<>>]
DocOtherWidgets == [kind |-> "dict", widgetsKind |-> "other", widgets |-> <<>>]
EmptyBlock == [kind |-> "empty", widgetsKind |-> "absent", widgets |-> <<>>]
InvalidBlock == [kind |-> "invalid", widgetsKind |-> "absent", widgets |-> <<>>]
OtherBlock == [kind |-> "other", widgetsKind |-> "absent", widgets |-> <<>>]

Card(noframes, scripts, nameTag, priceTag, spans) ==
    [noframes |-> noframes, scripts |-> scripts, nameTag |-> nameTag,
     priceTag |-> priceTag, spans |-> spans]

SeqsUpTo(S, n) == UNION {[1..k -> S] : k \in 0..n}

\* "rub" stands for the one-character rouble sign
RoublePrice == <<" ", "5", " ", "rub">>

\* the cards of the page-level runs
CardA ==
    Card(<<Doc(<<Widget(<<OtherValue, Entry(HasTitle("A"), PriceOf(1999), AbsentSpecs)>>)>>)>>,
         <<>>, NoTag, NoTag, <<>>)
CardA2 ==
    Card(<<>>, <<InvalidBlock, Doc(<<Widget(<<Entry(HasTitle("A"), PriceIn(100, "USD"), AbsentSpecs)>>)>>)>>,
         Tag(<<"B">>), NoTag, <<>>)
CardB ==
    Card(<<EmptyBlock, DocNoWidgets>>, <<>>, Tag(<<" ", "B", " ">>), Tag(RoublePrice),
         <<<<"a", ":">>, <<"x">>>>)
CardUntitled ==
    Card(<<Doc(<<Widget(<<Entry(HasTitle(""), PriceOf(100), AbsentSpecs)>>)>>)>>,
         <<>>, Tag(<<" ">>), NoTag, <<>>)
CardBroken == Card(<<OtherBlock>>, <<>>, Tag(<<"B">>), NoTag, <<>>)
CardBrokenLate ==
    Card(<<Doc(<<Widget(<<Entry(HasTitle("A"), OtherPrice, AbsentSpecs)>>)>>)>>,
         <<>>, Tag(<<"B">>), NoTag, <<>>)

PagePool == {CardA, CardA2, CardB, CardUntitled, CardBroken, CardBrokenLate}

Pages == SeqsUpTo(PagePool, MaxCards)

Limits == (0 - MaxNegLimit)..MaxLimit

-----------------------------------------------------------------------------
(* The query: search_products -> parse_yandex_market *)

NoResponse == [status |-> "none", products |-> <<>>]

\* return SearchResponse(query=q, products=items) (main.py:160)
Respond(items) == [status |-> "ok", products |-> items]

\* mutant: the request error reaches the caller
RespondError(items) == [status |-> "error", products |-> <<>>]

\* `except requests.RequestException: ... return []` then the response
\* (main.py:47-49, 159-160)
FailureResponse(items) == Respond(<<>>)

\* mutant: one card too many
WindowNext(cs, lim) == SliceTo(cs, lim + 1)

\* mutant: every card of the page is looped over
WindowAll(cs, lim) == cs

\* cards[:limit] (main.py:57)
Window(cs, lim) == SliceTo(cs, lim)

\* mutant: a product whose title is already in the list is dropped
AppendUnique(ps, p) ==
    IF \E k \in 1..Len(ps) : ps[k].title = p.title THEN ps ELSE Append(ps, p)

\* products.append(Product(...)) (main.py:140)
AppendProduct(ps, p) == Append(ps, p)

\* mutant: the exception ends the loop
BreakLoop(i, n) == n

\* `except Exception: ... continue` (main.py:146-148): on to the next card
AfterException(i, n) == i + 1

\* mutant: another page is requested while fewer than `limit` were collected
AfterLoopPaging(ps) == IF Len(ps) < limit THEN "FETCHING" ELSE "DONE"

\* mutant: an empty page is requested again
AfterLoopRetry(ps) == IF ps = <<>> THEN "FETCHING" ELSE "DONE"

\* `return products` (main.py:150): the query is over
AfterLoop(ps) == "DONE"

\* the cap on `fetches` that keeps a mutated driver finite
FetchCap == 3

InitState(lim, doc) ==
    /\ pc = "FETCHING"
    /\ limit = lim
    /\ page = doc
    /\ fetches = 0
    /\ cards = <<>>
    /\ idx = 0
    /\ products = <<>>
    /\ title = None
    /\ price = None
    /\ specs = <<>>
    /\ response = NoResponse

Init == \E lim \in Limits, doc \in Pages : InitState(lim, doc)

\* requests.get succeeds: the document is parsed and its cards found
\* (main.py:45-55)
RequestOk ==
    /\ pc = "FETCHING"
    /\ fetches < FetchCap
    /\ fetches' = fetches + 1
    /\ cards' = page
    /\ products' = <<>>
    /\ idx' = 0
    /\ pc' = "EXTRACTING"
    /\ UNCHANGED <<limit, page, title, price, specs, response>>

\* requests.get or raise_for_status raises RequestException (main.py:44-49)
RequestFails ==
    /\ pc = "FETCHING"
    /\ fetches < FetchCap
    /\ fetches' = fetches + 1
    /\ pc' = "ABORTED"
    /\ response' = FailureResponse(products)
    /\ UNCHANGED <<limit, page, cards, idx, products, title, price, specs>>

InLoop == pc = "EXTRACTING" /\ idx < Len(Window(cards, limit))

CurrentCard == Window(cards, limit)[idx + 1]

SetLocals(acc) == title' = acc.title /\ price' = acc.price /\ specs' = acc.specs

\* a loop iteration that reaches products.append (main.py:57-144)
CardEmits ==
    /\ InLoop
    /\ LET acc == ParseCard(CurrentCard)
       IN  /\ ~acc.raised
           /\ Truthy(acc.title)
           /\ products' = AppendProduct(products, Product(acc))
           /\ SetLocals(acc)
    /\ idx' = idx + 1
    /\ UNCHANGED <<pc, limit, page, fetches, cards, response>>

\* a loop iteration whose card has no title (main.py:139)
CardSkips ==
    /\ InLoop
    /\ LET acc == ParseCard(CurrentCard)
       IN  /\ ~acc.raised
           /\ ~Truthy(acc.title)
           /\ SetLocals(acc)
    /\ idx' = idx + 1
    /\ UNCHANGED <<pc, limit, page, fetches, cards, products, response>>

\* a loop iteration whose body raises (main.py:146-148)
CardRaises ==
    /\ InLoop
    /\ LET acc == ParseCard(CurrentCard)
       IN  /\ acc.raised
           /\ SetLocals(acc)
    /\ idx' = AfterException(idx, Len(Window(cards, limit)))
    /\ UNCHANGED <<pc, limit, page, fetches, cards, products, response>>

\* the loop is over: return products, and the endpoint answers (main.py:150, 160)
Return ==
    /\ pc = "EXTRACTING"
    /\ idx >= Len(Window(cards, limit))
    /\ pc' = AfterLoop(products)
    /\ response' = IF pc' = "DONE" THEN Respond(products) ELSE response
    /\ UNCHANGED <<limit, page, fetches, cards, idx, products, title, price, specs>>

Next == RequestOk \/ RequestFails \/ CardEmits \/ CardSkips \/ CardRaises \/ Return

Spec == Init /\ [][Next]_vars

-----------------------------------------------------------------------------
(* Runs over one generated card: the card-level claims *)

PriceFields ==
    {AbsentPrice, OtherPrice, PriceNoValue, PriceNoValueIn("USD")}
    \cup {PriceOf(v) : v \in {0, 100, 1999}}
    \cup {PriceIn(v, "USD") : v \in {0, 100, 1999}}

PriceEntries == {Entry(AbsentTitle, p, AbsentSpecs) : p \in PriceFields}

SpecLists ==
    {AbsentSpecs, OtherSpecs, SpecList(<<>>),
     SpecList(<<NamedSpec("a", StrValue("x"))>>),
     SpecList(<<NamedSpec("a", StrValue("y"))>>),
     SpecList(<<NamedSpec("b", IntValue(7))>>),
     SpecList(<<OtherSpec, NamedSpec("a", StrValue("x"))>>),
     SpecList(<<UnnamedSpec>>),
     SpecList(<<NamedSpec("a", StrValue("x")), NamedSpec("a", NoValue)>>)}

SpecEntries == {Entry(AbsentTitle, AbsentPrice, sp) : sp \in SpecLists}

\* the entries in one widget of one block, or each in a block of its own
OneWidget(entries) == <<Doc(<<Widget(entries)>>)>>
OwnBlocks(entries) == [k \in 1..Len(entries) |-> Doc(<<Widget(<<entries[k]>>)>>)]
Layouts(entries) == {OneWidget(entries), OwnBlocks(entries)}

\* a text of LabelLenLimit - 1 characters and one of LabelLenLimit, both ending in ':'
LongLabel == [i \in 1..(LabelLenLimit - 1) |-> IF i = LabelLenLimit - 1 THEN ":" ELSE "c"]
TooLongLabel == [i \in 1..LabelLenLimit |-> IF i = LabelLenLimit THEN ":" ELSE "c"]

SpanTexts ==
    {<<>>, <<" ">>, <<"a", ":">>, <<" ", "a", " ", ":">>, <<"b", ":">>, <<"x">>,
     <<":", "y">>, LongLabel, TooLongLabel}

TitleTag == Tag(<<"T">>)

PriceCards ==
    {Card(nf, <<>>, TitleTag, pt, <<>>) :
        nf \in UNION {Layouts(es) : es \in SeqsUpTo(PriceEntries, MaxEntries)},
        pt \in {NoTag, Tag(RoublePrice)}}

SpecCards ==
    {Card(nf, <<>>, TitleTag, NoTag, sp) :
        nf \in UNION {Layouts(es) : es \in SeqsUpTo(SpecEntries, MaxEntries)},
        sp \in {<<>>, <<<<"a", ":">>, <<"x">>>>}}

MarkupCards ==
    {Card(<<>>, sc, TitleTag, NoTag, sp) :
        sc \in {<<>>, OneWidget(<<Entry(AbsentTitle, AbsentPrice, SpecList(<<>>))>>),
                OneWidget(<<Entry(AbsentTitle, AbsentPrice,
                                  SpecList(<<NamedSpec("b", IntValue(7))>>))>>)},
        sp \in SeqsUpTo(SpanTexts, MaxSpans)}

CardGen == PriceCards \cup SpecCards \cup MarkupCards \cup PagePool

InitCard == \E c \in CardGen : InitState(1, <<c>>)

SpecCard == InitCard /\ [][Next]_vars

-----------------------------------------------------------------------------
(* Vocabulary of the properties *)

\* the products a sequence of cards yields when every one of them is looped over
PageYield(cs) == Flatten([k \in 1..Len(cs) |-> CardProducts(cs[k])])

Raises(card) == ParseCard(card).raised

Extractable(card) == CardProducts(card) # <<>>

NumExtractable(cs) == Cardinality({k \in 1..Len(cs) : Extractable(cs[k])})

\* how many products of ps carry the title t
TitledCount(ps, t) == Cardinality({k \in 1..Len(ps) : ps[k].title = t})

Titles == {"A", "B", "T"}

\* the cards looped over so far
Inspected == SubSeq(Window(cards, limit), 1, idx)

Terminal == pc \in {"DONE", "ABORTED"}

-----------------------------------------------------------------------------
C4_BoundedFetching ==
    /\ [](fetches <= 1)
    /\ [][(pc = "EXTRACTING" /\ ~InLoop /\ products = <<>>)
            => (pc' = "DONE" /\ fetches' = fetches)]_vars
    /\ [][pc = "DONE" => (pc' = "DONE" /\ fetches' = fetches)]_vars

C4_Witness ==
    /\ pc = "DONE"
    /\ limit > 0
    /\ Len(cards) >= 2
    /\ products = <<>>
    /\ fetches = 1

(* C5: for limit > 0 the product list never holds more than limit products,
   while it is built and in the response. *)
C5_CapacityBound ==
    limit > 0 =>
        /\ Len(products) <= limit
        /\ Len(response.products) <= limit

C5_Witness ==
    /\ pc = "DONE"
    /\ limit > 0
    /\ NumExtractable(cards) > limit
    /\ Len(response.products) = limit

(* C6 as stated: a query with a non-positive limit ends with an error
   response and without any fetch. *)
C6_Original ==
    (limit <= 0 /\ Terminal) =>
        /\ response.status = "error"
        /\ fetches = 0

(* C7 as stated: with a card of the page that fails, the products are those
   the page yields with that card absent. *)
C7_Original ==
    (pc = "DONE" /\ limit > 0) =>
        \A j \in 1..Len(cards) :
            Raises(cards[j]) => products = PageYield(Window(RemoveAt(cards, j), limit))

(* C7 amended: with a failing card among the first `limit` cards, the
   products are those these first `limit` cards yield with the failing card
   absent; the failing card yields nothing and still takes its slot. *)
C7_FaultIsolation ==
    pc = "DONE" =>
        LET w == Window(cards, limit)
        IN  \A j \in 1..Len(w) : Raises(w[j]) => products = PageYield(RemoveAt(w, j))

C7_Witness ==
    /\ pc = "DONE"
    /\ limit > 0
    /\ Len(cards) >= 3
    /\ limit >= 3
    /\ Extractable(cards[1])
    /\ Raises(cards[2])
    /\ Extractable(cards[3])
    /\ Len(products) = 2

(* C10 as stated: skipped cards consume no capacity, so a query yields
   min(limit, number of extractable cards of the page) products. *)
C10_Original ==
    (pc = "DONE" /\ limit > 0) =>
        Len(products) = Min(limit, NumExtractable(cards))

(* C10 amended: capacity is counted in cards looped over: for limit > 0 the
   loop covers exactly the first min(limit, number of cards) cards, a skipped
   card among them takes a slot, the products are the extractable ones of
   them, and no later card is looped over. *)
C10_CapacityInCards ==
    limit > 0 =>
        /\ idx <= Min(limit, Len(cards))
        /\ pc = "DONE" =>
               /\ idx = Min(limit, Len(cards))
               /\ Len(products) = NumExtractable(SubSeq(cards, 1, idx))

C10_Witness ==
    /\ pc = "DONE"
    /\ limit > 0
    /\ Len(cards) > limit
    /\ Len(products) < limit
    /\ Extractable(cards[Len(cards)])

-----------------------------------------------------------------------------
(* Vocabulary of the card-level properties *)

IsDictValue(value) == value.kind = "dict"

\* the payload entries of a card in iteration order: the dict values of the
\* widgets of its JSON objects
BlockEntries(block) ==
    IF block.kind = "dict" /\ block.widgetsKind = "dict"
    THEN Flatten([k \in 1..Len(block.widgets) |->
                     SelectSeq(block.widgets[k].values, IsDictValue)])
    ELSE <<>>

EntriesOf(card) ==
    LET blocks == JsonBlocks(card)
    IN  Flatten([k \in 1..Len(blocks) |-> BlockEntries(blocks[k])])

\* the entries that have a 'price' field
Priced(es) == {k \in 1..Len(es) : es[k].price.kind # "absent"}

FirstOf(S) == CHOOSE k \in S : \A j \in S : k <= j

\* the named specs of the 'specs' lists of all entries, in iteration order
NamedOf(items) ==
    LET sel == SelectSeq(items, IsNamedSpec)
    IN  [i \in 1..Len(sel) |-> Characteristic(sel[i])]

PayloadCharacteristics(card) ==
    LET es == EntriesOf(card)
    IN  Flatten([k \in 1..Len(es) |->
                    IF es[k].specs.kind = "list" THEN NamedOf(es[k].specs.items) ELSE <<>>])

\* the positions of the span pairs the markup fallback records
LabelPairs(spans) ==
    {i \in 1..(Len(spans) - 1) : IsLabel(GetText(spans[i])) /\ GetText(spans[i + 1]) # <<>>}

\* the one card of a card-level run has been looped over without an exception
CardParsed == pc = "DONE" /\ Len(page) = 1 /\ idx = 1 /\ ~Raises(page[1])

(* C8 as stated: the price is that of the first entry with a price field,
   formatted "<value> <currency>" with currency defaulting to "RUR"; a price
   field of a later entry never changes it. *)
C8_Original ==
    CardParsed =>
        LET es == EntriesOf(page[1])
        IN  Priced(es) # {} =>
                LET p == es[FirstOf(Priced(es))].price
                IN  (p.hasValue /\ p.value # 0) =>
                        price = FormatPrice(p.value, Currency(p))

(* C9: the characteristics of a card are the named specs of all payload
   entries, in iteration order and with repeated names kept, whenever there
   is at least one; only otherwise are they the markup pairs, one per label,
   each with the value of the last pair of that label. *)
C9_AttributePolicy ==
    CardParsed =>
        LET payload == PayloadCharacteristics(page[1])
            spans == page[1].spans
            pairs == LabelPairs(spans)
        IN  /\ payload # <<>> => specs = payload
            /\ payload = <<>> =>
                   /\ \A j, k \in 1..Len(specs) : specs[j].name = specs[k].name => j = k
                   /\ \A k \in 1..Len(specs) :
                          \E i \in pairs : specs[k].name = LabelName(GetText(spans[i]))
                   /\ \A i \in pairs :
                          LET label == LabelName(GetText(spans[i]))
                              last == CHOOSE m \in pairs :
                                          /\ LabelName(GetText(spans[m])) = label
                                          /\ \A n \in pairs :
                                                 LabelName(GetText(spans[n])) = label => n <= m
                          IN  \E k \in 1..Len(specs) :
                                  /\ specs[k].name = label
                                  /\ specs[k].value = JoinChars(GetText(spans[last + 1]))

C9_Witness ==
    /\ CardParsed
    /\ LabelPairs(page[1].spans) # {}
    /\ Len(EntriesOf(page[1])) = 2
    /\ Len(specs) = 2
    /\ specs[1].name = specs[2].name
    /\ specs[1].value # specs[2].value
    /\ response.products[1].characteristics = specs

\* markup pairs with a repeated label, deduplicated to the last value
C9_MarkupWitness ==
    /\ CardParsed
    /\ PayloadCharacteristics(page[1]) = <<>>
    /\ Cardinality(LabelPairs(page[1].spans)) = 2
    /\ Len(specs) = 1
    /\ specs[1].value = "x"

=============================================================================
